---- MODULE Spec2Model ----
(***************************************************************************)
(* Model of the browser voice-call page (VoiceCallPage): the call state,   *)
(* the refs to the media stream, audio context, processor and WebSocket,   *)
(* the playback queue, and the handlers that run on user, request,         *)
(* channel and playback events.                                            *)
(*                                                                         *)
(* Every connectWebSocket invocation k (k = 1..MaxCalls, the k-th started  *)
(* call) acquires its own stream k, audio context k and WebSocket k; a ref *)
(* holds such an index, or Null.                                           *)
(***************************************************************************)
EXTENDS Integers, Sequences, FiniteSets, TLC

\* ---- bounds ----
MaxCalls == 2        \* calls started on the page during one run
MaxChunks == 2       \* binary audio frames received during one run
MaxEndPending == 2   \* end-call requests in flight at once
MaxSent == 1         \* captured audio frames sent during one run
MaxTranscript == 2   \* entries the transcript of one call may grow to
MaxText == 2         \* text frames received during one run
MaxVrFrames == 3     \* messages a VoiceRecorder socket receives during one run
MaxVrText == 2       \* distinct non-empty texts of VoiceRecorder messages

Null == 0
Calls == 1..MaxCalls
Chunks == 1..MaxChunks

\* Byte lengths of the binary frames the remote side may send: one that is
\* not a whole number of 16-bit samples, and one that is.
FrameLens == {3, 4}

\* createScriptProcessor(4096, 1, 1): samples in one capture buffer.
BufferSize == 4096

NoError == "none"
CallStates == {"idle", "connecting", "active", "ending", "ended"}

VARIABLES
    callState,        \* useState<CallState>
    callId,           \* useState<string | null>: Null or the call's index
    error,            \* useState<string | null>
    transcript,       \* useState<TranscriptEntry[]>: entries [type, text], in order
    mounted,          \* the component is mounted (state updates take effect)
    startReq,         \* startCallMutation: "none" | "pending" | "awaitMedia"
    endPending,       \* endCallMutation requests in flight
    nCalls,           \* calls the server has accepted so far
    nChunks,          \* binary frames received so far
    mediaStreamRef,   \* refs: Null or the index of the held resource
    audioContextRef,
    wsRef,
    processorRef,
    streamState,      \* per stream:  "none" | "live" | "stopped"
    ctxState,         \* per context: "none" | "running" | "closed"
    wsState,          \* per socket:  "none" | "connecting" | "open" | "closing" | "failed" | "closed"
    procState,        \* per processor: "none" | "connected" | "disconnected"
    audioQueueRef,    \* sequence of chunk ids waiting in the queue
    playing,          \* buffer sources started and not yet ended: [id, ctx]
    received,         \* history: byte length of each binary frame received
    started,          \* history: chunk ids in the order source.start() ran
    completed,        \* history: chunk ids in the order onended fired
    nSent,            \* history: captured frames sent with ws.send
    sentBytes,        \* history: byte length of each frame sent
    nText,            \* history: text frames received so far
    terminated        \* history: calls whose disconnectCall ran while
                      \* their connectWebSocket awaited getUserMedia

\* The sample conversions of the page, taken on their own.
VARIABLES
    pcmStage,         \* "received" | "decoded" | "captured" | "encoded"
    pcmData,          \* playAudioChunk: the Int16Array over the received frame
    floatData,        \* playAudioChunk: the Float32Array made from it
    inputData,        \* onaudioprocess: the Float32Array of the input buffer
    sentPcm           \* onaudioprocess: the Int16Array whose buffer is sent

pcmVars == <<pcmStage, pcmData, floatData, inputData, sentPcm>>

\* The VoiceRecorder component (components/VoiceRecorder.tsx).
VARIABLES
    vrMounted,        \* "no" | "yes" | "gone"
    vrSocket,         \* "none" | "connecting" | "open" | "closing" | "closed"
    isConnected,      \* useState(false)
    isRecording,      \* useState(false)
    status,           \* useState(''): "" or the status text shown
    transcription,    \* useState(''): "" or the text of a transcription, 1..MaxVrText
    handlerSees,      \* the value of transcription in the render whose
                      \* connectWebSocket created the socket's handlers
    onMessageCalls,   \* history: <<userText, botText>> of each onMessage call
    vrFrames          \* history: messages received on the socket so far

recVars == <<vrMounted, vrSocket, isConnected, isRecording, status, transcription,
             handlerSees, onMessageCalls, vrFrames>>

\* What the handlers of the call page never touch.
offPageVars == <<pcmVars, recVars>>

pageVars == <<callState, callId, error, transcript, mounted, startReq, endPending, nCalls,
              nChunks, mediaStreamRef, audioContextRef, wsRef, processorRef,
              streamState, ctxState, wsState, procState, audioQueueRef, playing,
              received, started, completed, nSent, sentBytes, nText, terminated>>

vars == <<pcmVars, recVars, callState, callId, error, transcript, mounted, startReq, endPending, nCalls,
          nChunks, mediaStreamRef, audioContextRef, wsRef, processorRef,
          streamState, ctxState, wsState, procState, audioQueueRef, playing,
          received, started, completed, nSent, sentBytes, nText, terminated>>

reqVars == <<startReq, endPending, nCalls>>
refVars == <<mediaStreamRef, audioContextRef, wsRef, processorRef>>
resVars == <<streamState, ctxState, wsState, procState>>
histVars == <<received, started, completed, nSent, sentBytes, nText, terminated>>
playVars == <<nChunks, audioQueueRef, playing, histVars>>
\* playVars without the count of text frames: what a text frame leaves alone.
audioVars == <<nChunks, audioQueueRef, playing, received, started, completed,
               nSent, sentBytes, terminated>>

\* A state setter of an unmounted component has no effect.
SetState(cur, new) == IF mounted THEN new ELSE cur

\* The call page after its first render.
PageInit ==
    /\ callState = "idle"
    /\ callId = Null
    /\ error = NoError
    /\ transcript = <<>>
    /\ mounted = TRUE
    /\ startReq = "none"
    /\ endPending = 0
    /\ nCalls = 0
    /\ nChunks = 0
    /\ mediaStreamRef = Null
    /\ audioContextRef = Null
    /\ wsRef = Null
    /\ processorRef = Null
    /\ streamState = [k \in Calls |-> "none"]
    /\ ctxState = [k \in Calls |-> "none"]
    /\ wsState = [k \in Calls |-> "none"]
    /\ procState = [k \in Calls |-> "none"]
    /\ audioQueueRef = <<>>
    /\ playing = {}
    /\ received = <<>>
    /\ started = <<>>
    /\ completed = <<>>
    /\ nSent = 0
    /\ sentBytes = <<>>
    /\ nText = 0
    /\ terminated = {}

\* ---- playback ----

\* The start history after a handler that left pl playing: the id of the
\* source it started, if any, is appended.
StartedAfter(pl) ==
    LET new == pl \ playing
    IN IF new = {} THEN started ELSE Append(started, (CHOOSE s \in new : TRUE).id)

\* A conversion that rounds the byte length down instead of throwing.
Int16ArrayNeverThrows(len) == FALSE

\* new Int16Array(arrayBuffer) throws a RangeError when the byte length is
\* not a multiple of 2.
Int16ArrayThrows(len) == len % 2 # 0

\* playNextChunk run on queue q with the context ref ctx: the pair
\* <<queue after, sources playing after>>.
PlayNextChunk(q, ctx, pl) ==
    IF ctx = Null \/ Len(q) = 0
      THEN <<q, pl>>
      ELSE <<Tail(q), pl \cup {[id |-> Head(q), ctx |-> ctx]}>>

\* A last-in-first-out playAudioChunk: the chunk is put at the front of the
\* queue and playback starts once two chunks are queued.
PlayAudioChunkLifo(c) ==
    IF audioContextRef = Null
      THEN UNCHANGED <<audioQueueRef, playing, started>>
      ELSE LET q == <<c>> \o audioQueueRef
               r == IF Len(q) = 2
                      THEN PlayNextChunk(q, audioContextRef, playing)
                      ELSE <<q, playing>>
           IN /\ audioQueueRef' = r[1]
              /\ playing' = r[2]
              /\ started' = StartedAfter(r[2])

\* playAudioChunk for the frame with id c.
PlayAudioChunk(c) ==
    IF audioContextRef = Null
      THEN UNCHANGED <<audioQueueRef, playing, started>>
      ELSE LET q == Append(audioQueueRef, c)
               r == IF Len(q) = 1
                      THEN PlayNextChunk(q, audioContextRef, playing)
                      ELSE <<q, playing>>
           IN /\ audioQueueRef' = r[1]
              /\ playing' = r[2]
              /\ started' = StartedAfter(r[2])

\* ws.onmessage with binary data on socket k: playAudioChunk(event.data).
\* The conversion runs inside the try block, after the check of the
\* context ref; a frame it throws on is logged and dropped.
WsBinary(k) ==
    /\ wsState[k] = "open"
    /\ nChunks < MaxChunks
    /\ nChunks' = nChunks + 1
    /\ \E len \in FrameLens :
         /\ received' = Append(received, len)
         /\ IF Int16ArrayThrows(len)
              THEN UNCHANGED <<audioQueueRef, playing, started>>
              ELSE PlayAudioChunk(nChunks + 1)
    /\ UNCHANGED <<callState, callId, error, transcript, mounted, reqVars, refVars,
                   resVars, completed, nSent, sentBytes, nText, terminated>>
    /\ UNCHANGED offPageVars

\* source.onended of a playing buffer source.
SourceEnded(s) ==
    /\ s \in playing
    /\ LET pl == playing \ {s}
           r == IF Len(audioQueueRef) > 0
                  THEN PlayNextChunk(audioQueueRef, audioContextRef, pl)
                  ELSE <<audioQueueRef, pl>>
       IN /\ audioQueueRef' = r[1]
          /\ playing' = r[2]
          /\ started' = StartedAfter(r[2])
    /\ completed' = Append(completed, s.id)
    /\ UNCHANGED <<callState, callId, error, transcript, mounted, reqVars, refVars,
                   resVars, nChunks, received, nSent, sentBytes, nText, terminated>>
    /\ UNCHANGED offPageVars

\* ---- capture ----

\* An onaudioprocess that sends without looking at the socket's readyState.
AudioProcessUnchecked(k) ==
    /\ procState[k] = "connected"
    /\ ctxState[k] = "running"
    /\ nSent < MaxSent
    /\ nSent' = nSent + 1
    /\ sentBytes' = Append(sentBytes, 2 * BufferSize)
    /\ UNCHANGED <<callState, callId, error, transcript, mounted, reqVars, refVars,
                   resVars, nChunks, audioQueueRef, playing, received, started,
                   completed, nText, terminated>>
    /\ UNCHANGED offPageVars

\* processor.onaudioprocess of the processor created for socket k: returns
\* unless the socket is OPEN, else converts the BufferSize samples of the
\* input buffer to an Int16Array of the same length (2 bytes a sample) and
\* sends its buffer as one frame.
AudioProcess(k) ==
    /\ procState[k] = "connected"
    /\ ctxState[k] = "running"
    /\ nSent < MaxSent
    /\ IF wsState[k] = "open"
         THEN /\ nSent' = nSent + 1
              /\ sentBytes' = Append(sentBytes, 2 * BufferSize)
         ELSE UNCHANGED <<nSent, sentBytes>>
    /\ UNCHANGED <<callState, callId, error, transcript, mounted, reqVars, refVars,
                   resVars, nChunks, audioQueueRef, playing, received, started,
                   completed, nText, terminated>>
    /\ UNCHANGED offPageVars

\* ---- termination ----

\* The calls terminated while awaiting the microphone, after a run of
\* disconnectCall: the call whose connectWebSocket awaits getUserMedia, if
\* there is one, joins them.
TerminatedAfterDisconnect ==
    IF startReq = "awaitMedia" THEN terminated \cup {nCalls} ELSE terminated

\* WebSocket.close(): a socket that is connecting or open starts closing.
CloseSocket(st) == IF st \in {"connecting", "open"} THEN "closing" ELSE st

\* A disconnectCall that closes the socket but keeps the ref to it.
DisconnectCallKeepsSocketRef ==
    /\ procState' = IF processorRef # Null
                      THEN [procState EXCEPT ![processorRef] = "disconnected"]
                      ELSE procState
    /\ processorRef' = Null
    /\ streamState' = IF mediaStreamRef # Null
                        THEN [streamState EXCEPT ![mediaStreamRef] = "stopped"]
                        ELSE streamState
    /\ mediaStreamRef' = Null
    /\ ctxState' = IF audioContextRef # Null
                     THEN [ctxState EXCEPT ![audioContextRef] = "closed"]
                     ELSE ctxState
    /\ audioContextRef' = Null
    /\ wsState' = IF wsRef # Null
                    THEN [wsState EXCEPT ![wsRef] = CloseSocket(wsState[wsRef])]
                    ELSE wsState
    /\ wsRef' = wsRef
    /\ audioQueueRef' = <<>>
    /\ playing' = {s \in playing : s.ctx # audioContextRef}
    /\ callState' = SetState(callState, "ended")

\* disconnectCall: releases what the refs hold, clears the queue, sets ended.
\* Closing an audio context stops the sources playing on it.
DisconnectCall ==
    /\ procState' = IF processorRef # Null
                      THEN [procState EXCEPT ![processorRef] = "disconnected"]
                      ELSE procState
    /\ processorRef' = Null
    /\ streamState' = IF mediaStreamRef # Null
                        THEN [streamState EXCEPT ![mediaStreamRef] = "stopped"]
                        ELSE streamState
    /\ mediaStreamRef' = Null
    /\ ctxState' = IF audioContextRef # Null
                     THEN [ctxState EXCEPT ![audioContextRef] = "closed"]
                     ELSE ctxState
    /\ audioContextRef' = Null
    /\ wsState' = IF wsRef # Null
                    THEN [wsState EXCEPT ![wsRef] = CloseSocket(wsState[wsRef])]
                    ELSE wsState
    /\ wsRef' = Null
    /\ audioQueueRef' = <<>>
    /\ playing' = {s \in playing : s.ctx # audioContextRef}
    /\ callState' = SetState(callState, "ended")

\* ---- start of a call ----

\* The call button: shown in idle or ended, disabled while the start
\* mutation is pending (it stays pending until onSuccess has returned).
HandleStartCall ==
    /\ mounted
    /\ callState \in {"idle", "ended"}
    /\ startReq = "none"
    /\ nCalls < MaxCalls
    /\ startReq' = "pending"
    /\ UNCHANGED <<callState, callId, error, transcript, mounted, endPending,
                   nCalls, refVars, resVars, playVars>>
    /\ UNCHANGED offPageVars

\* startCallMutation.onSuccess up to the await of getUserMedia.
StartCallSuccess ==
    /\ startReq = "pending"
    /\ nCalls' = nCalls + 1
    /\ callId' = SetState(callId, nCalls + 1)
    /\ callState' = SetState(callState, "connecting")
    /\ transcript' = SetState(transcript, <<>>)
    /\ error' = SetState(error, NoError)
    /\ startReq' = "awaitMedia"
    /\ UNCHANGED <<mounted, endPending, refVars, resVars, playVars>>
    /\ UNCHANGED offPageVars

\* startCallMutation.onError.
StartCallError ==
    /\ startReq = "pending"
    /\ error' = SetState(error, "start_failed")
    /\ callState' = SetState(callState, "idle")
    /\ startReq' = "none"
    /\ UNCHANGED <<callId, transcript, mounted, endPending, nCalls, refVars, resVars,
                   playVars>>
    /\ UNCHANGED offPageVars

\* A catch block that treats the failure as the end of the call.
ConnectCatchEnded ==
    /\ error' = SetState(error, "connect_failed")
    /\ callState' = SetState(callState, "ended")

\* The catch block of connectWebSocket.
ConnectCatch ==
    /\ error' = SetState(error, "connect_failed")
    /\ callState' = SetState(callState, "idle")

\* getUserMedia rejects: connectWebSocket goes to its catch block.
GetUserMediaFail ==
    /\ startReq = "awaitMedia"
    /\ startReq' = "none"
    /\ ConnectCatch
    /\ UNCHANGED <<callId, transcript, mounted, endPending, nCalls, refVars, resVars,
                   playVars>>
    /\ UNCHANGED offPageVars

\* getUserMedia resolves: the rest of connectWebSocket runs to its end.
\* Either constructor may throw; what was assigned before the throw stays.
GetUserMediaOk ==
    /\ startReq = "awaitMedia"
    /\ startReq' = "none"
    /\ LET k == nCalls IN
       /\ streamState' = [streamState EXCEPT ![k] = "live"]
       /\ mediaStreamRef' = k
       /\ \E outcome \in {"ok", "context_throws", "socket_throws"} :
            /\ IF outcome = "context_throws"
                 THEN UNCHANGED <<ctxState, audioContextRef>>
                 ELSE /\ ctxState' = [ctxState EXCEPT ![k] = "running"]
                      /\ audioContextRef' = k
            /\ IF outcome = "ok"
                 THEN /\ wsState' = [wsState EXCEPT ![k] = "connecting"]
                      /\ wsRef' = k
                      /\ UNCHANGED <<callState, error>>
                 ELSE /\ UNCHANGED <<wsState, wsRef>>
                      /\ ConnectCatch
    /\ UNCHANGED <<callId, transcript, mounted, endPending, nCalls, processorRef,
                   procState, playVars>>
    /\ UNCHANGED offPageVars

\* ---- channel events ----

\* ws.onopen of socket k: active, then startAudioCapture(stream, context, ws)
\* of that invocation.
WsOpen(k) ==
    /\ wsState[k] = "connecting"
    /\ wsState' = [wsState EXCEPT ![k] = "open"]
    /\ callState' = SetState(callState, "active")
    /\ IF ctxState[k] = "running"
         THEN /\ processorRef' = k
              /\ procState' = [procState EXCEPT ![k] = "connected"]
         ELSE UNCHANGED <<processorRef, procState>>
    /\ UNCHANGED <<callId, error, transcript, mounted, reqVars, mediaStreamRef,
                   audioContextRef, wsRef, streamState, ctxState, playVars>>
    /\ UNCHANGED offPageVars

\* ws.onerror of socket k; the browser fires the close event after it.
WsError(k) ==
    /\ wsState[k] \in {"connecting", "open", "closing"}
    /\ wsState' = [wsState EXCEPT ![k] = "failed"]
    /\ error' = SetState(error, "ws_error")
    /\ UNCHANGED <<callState, callId, transcript, mounted, reqVars, refVars,
                   streamState, ctxState, procState, playVars>>
    /\ UNCHANGED offPageVars

\* An onclose that reconnects when the close was not asked for.
WsCloseRetry(k) ==
    /\ wsState[k] \in {"open", "closing", "failed"}
    /\ wsState' = [wsState EXCEPT
                     ![k] = IF wsState[k] = "closing" THEN "closed" ELSE "connecting"]
    /\ callState' = SetState(callState, "ended")
    /\ UNCHANGED <<callId, error, transcript, mounted, reqVars, refVars, streamState,
                   ctxState, procState, playVars>>
    /\ UNCHANGED offPageVars

\* ws.onclose of socket k: after close(), after an error, or because the
\* remote side closed an open channel.
WsClose(k) ==
    /\ wsState[k] \in {"open", "closing", "failed"}
    /\ wsState' = [wsState EXCEPT ![k] = "closed"]
    /\ callState' = SetState(callState, "ended")
    /\ UNCHANGED <<callId, error, transcript, mounted, reqVars, refVars, streamState,
                   ctxState, procState, playVars>>
    /\ UNCHANGED offPageVars

\* ---- text frames ----
\* ws.onmessage with a string: JSON.parse, then handleWebSocketMessage, both
\* inside one try block.  Frames are counted as they arrive, and a frame's
\* ordinal stands for the text it carries.

\* An error message handled as fatal to the call.
WsMessageErrorFatal(k) ==
    /\ wsState[k] = "open"
    /\ nText < MaxText
    /\ nText' = nText + 1
    /\ error' = SetState(error, "server_error")
    /\ callState' = SetState(callState, "ended")
    /\ UNCHANGED <<callId, transcript, mounted, reqVars, refVars, resVars, audioVars>>
    /\ UNCHANGED offPageVars

\* A text frame {type: "error", message}.
WsMessageError(k) ==
    /\ wsState[k] = "open"
    /\ nText < MaxText
    /\ nText' = nText + 1
    /\ error' = SetState(error, "server_error")
    /\ UNCHANGED <<callState, callId, transcript, mounted, reqVars, refVars, resVars,
                   audioVars>>
    /\ UNCHANGED offPageVars

\* A transcription handler that lists partial results as well.
TranscriptionMsgKeepsPartials(k, isFinal) ==
    /\ wsState[k] = "open"
    /\ nText < MaxText
    /\ Len(transcript) < MaxTranscript
    /\ nText' = nText + 1
    /\ transcript' = SetState(transcript,
                               Append(transcript, [type |-> "user", text |-> nText + 1]))
    /\ UNCHANGED <<callState, callId, error, mounted, reqVars, refVars, resVars,
                   audioVars>>
    /\ UNCHANGED offPageVars

\* A text frame {type: "transcription", text, is_final}: only a final
\* transcription is appended, as a user entry with the frame's text.
TranscriptionMsg(k, isFinal) ==
    /\ wsState[k] = "open"
    /\ nText < MaxText
    /\ Len(transcript) < MaxTranscript
    /\ nText' = nText + 1
    /\ transcript' = IF isFinal
                       THEN SetState(transcript,
                                     Append(transcript, [type |-> "user", text |-> nText + 1]))
                       ELSE transcript
    /\ UNCHANGED <<callState, callId, error, mounted, reqVars, refVars, resVars,
                   audioVars>>
    /\ UNCHANGED offPageVars

WsTranscription(k) == \E isFinal \in BOOLEAN : TranscriptionMsg(k, isFinal)

\* An agent_response handler that puts the newest entry first.
WsAgentResponseNewestFirst(k) ==
    /\ wsState[k] = "open"
    /\ nText < MaxText
    /\ Len(transcript) < MaxTranscript
    /\ nText' = nText + 1
    /\ transcript' = SetState(transcript,
                               <<[type |-> "agent", text |-> nText + 1]>> \o transcript)
    /\ UNCHANGED <<callState, callId, error, mounted, reqVars, refVars, resVars,
                   audioVars>>
    /\ UNCHANGED offPageVars

\* A text frame {type: "agent_response", text}: appended as an agent entry.
WsAgentResponse(k) ==
    /\ wsState[k] = "open"
    /\ nText < MaxText
    /\ Len(transcript) < MaxTranscript
    /\ nText' = nText + 1
    /\ transcript' = SetState(transcript,
                               Append(transcript, [type |-> "agent", text |-> nText + 1]))
    /\ UNCHANGED <<callState, callId, error, mounted, reqVars, refVars, resVars,
                   audioVars>>
    /\ UNCHANGED offPageVars

\* A handler that reports a frame it cannot use as an error.
WsTextIgnoredAsError(k) ==
    /\ wsState[k] = "open"
    /\ nText < MaxText
    /\ nText' = nText + 1
    /\ error' = SetState(error, "server_error")
    /\ UNCHANGED <<callState, callId, transcript, mounted, reqVars, refVars, resVars,
                   audioVars>>
    /\ UNCHANGED offPageVars

\* A text frame that is not valid JSON (JSON.parse throws, the catch logs
\* it), or valid JSON that is no object (reading its type throws inside the
\* same try), or an object whose type matches no case of the switch (a
\* status message, say): nothing but the log.
WsTextIgnored(k) ==
    /\ wsState[k] = "open"
    /\ nText < MaxText
    /\ nText' = nText + 1
    /\ UNCHANGED <<callState, callId, error, transcript, mounted, reqVars, refVars,
                   resVars, audioVars>>
    /\ UNCHANGED offPageVars

\* ---- end of a call ----

\* The end button: shown unless idle or ended, disabled while ending.
HandleEndCall ==
    /\ mounted
    /\ callState \in {"connecting", "active"}
    /\ IF callId # Null
         THEN /\ endPending < MaxEndPending
              /\ callState' = "ending"
              /\ endPending' = endPending + 1
              /\ UNCHANGED <<refVars, resVars, audioQueueRef, playing, terminated>>
         ELSE /\ DisconnectCall
              /\ terminated' = TerminatedAfterDisconnect
              /\ UNCHANGED endPending
    /\ UNCHANGED <<callId, error, transcript, mounted, startReq, nCalls, nChunks,
                   received, started, completed, nSent, sentBytes, nText>>
    /\ UNCHANGED offPageVars

\* endCallMutation.onSuccess.
EndCallSuccess ==
    /\ endPending > 0
    /\ endPending' = endPending - 1
    /\ DisconnectCall
    /\ terminated' = TerminatedAfterDisconnect
    /\ UNCHANGED <<callId, error, transcript, mounted, startReq, nCalls, nChunks,
                   received, started, completed, nSent, sentBytes, nText>>
    /\ UNCHANGED offPageVars

\* The end-call request fails: the mutation has no onError.
EndCallError ==
    /\ endPending > 0
    /\ endPending' = endPending - 1
    /\ UNCHANGED <<callState, callId, error, transcript, mounted, startReq, nCalls,
                   refVars, resVars, playVars>>
    /\ UNCHANGED offPageVars

\* The cleanup of the mount effect.
Unmount ==
    /\ mounted
    /\ mounted' = FALSE
    /\ DisconnectCall
    /\ terminated' = TerminatedAfterDisconnect
    /\ UNCHANGED <<callId, error, transcript, reqVars, nChunks, received, started,
                   completed, nSent, sentBytes, nText>>
    /\ UNCHANGED offPageVars

\* ---- sample conversions ----
\* A float is held as [neg, m, e], standing for (-1)^neg * m / 2^e with
\* m < 2^24: every value of a Float32Array met here has that form, and read
\* back as a double it is that value exactly.

Int16Min == -32768
Int16Max == 32767
Int16 == Int16Min..Int16Max

Abs(x) == IF x < 0 THEN -x ELSE x

Zero == [neg |-> FALSE, m |-> 0, e |-> 0]

\* Binary long division of r / den, one quotient bit a step, until the
\* quotient q has the 24 significant bits of a Float32.
RECURSIVE DivBits(_, _, _, _)
DivBits(q, r, e, den) ==
    IF q >= 2^23
      THEN [q |-> q, r |-> r, e |-> e]
      ELSE DivBits(2 * q + (IF 2 * r >= den THEN 1 ELSE 0),
                   IF 2 * r >= den THEN 2 * r - den ELSE 2 * r,
                   e + 1, den)

\* a / den for 0 < a <= den, stored in a Float32Array: the quotient rounded
\* to nearest, ties to even, at 24 significant bits.  (The division is done
\* in double precision first; the exact quotient is further from any tie of
\* the 24-bit format than a double's rounding error, so rounding twice gives
\* the same float.)
Float32Div(a, den) ==
    LET d == DivBits(a \div den, a % den, 0, den)
        up == 2 * d.r > den \/ (2 * d.r = den /\ d.q % 2 = 1)
        m == IF up THEN d.q + 1 ELSE d.q
    IN IF m = 2^24 THEN [m |-> 2^23, e |-> d.e - 1] ELSE [m |-> m, e |-> d.e]

\* A decoding that divides every sample by 0x8000.
DecodeSampleOneDivisor(n) ==
    IF n = 0
      THEN Zero
      ELSE LET f == Float32Div(Abs(n), 32768)
           IN [neg |-> n < 0, m |-> f.m, e |-> f.e]

\* playAudioChunk: floatData[i] = pcmData[i] / (pcmData[i] < 0 ? 0x8000 : 0x7fff).
DecodeSample(n) ==
    IF n = 0
      THEN Zero
      ELSE LET f == Float32Div(Abs(n), IF n < 0 THEN 32768 ELSE 32767)
           IN [neg |-> n < 0, m |-> f.m, e |-> f.e]

\* The magnitude of f is greater than 1 (m < 2^24, so only if e < 24).
AboveOne(f) == f.e < 24 /\ f.m > 2^(f.e)

\* floor(m * scale / 2^e) for m <= 2^e, m < 2^24 and scale <= 2^15.  The
\* product is exact in a double; here it is taken in two 12-bit halves of m
\* so that no term passes 2^31.
TruncScaled(m, e, scale) ==
    IF e < 12
      THEN (m * scale) \div 2^e
      ELSE LET A == (m \div 4096) * scale
               B == (m % 4096) * scale
           IN (A + B \div 4096) \div 2^(e - 12)

\* Storing the number v (already whole) in an Int16Array: modulo 2^16.
ToInt16(v) == ((v + 32768) % 65536) - 32768

\* An encoding that scales every sample by 0x8000.
EncodeSampleOneScale(f) ==
    LET s == IF AboveOne(f) THEN [neg |-> f.neg, m |-> 1, e |-> 0] ELSE f
        t == TruncScaled(s.m, s.e, 32768)
    IN ToInt16(IF s.neg THEN -t ELSE t)

\* onaudioprocess: s = Math.max(-1, Math.min(1, inputData[i]));
\* pcmData[i] = s < 0 ? s * 0x8000 : s * 0x7fff.  The store into the
\* Int16Array drops the fraction of the product (towards zero).
EncodeSample(f) ==
    LET s == IF AboveOne(f) THEN [neg |-> f.neg, m |-> 1, e |-> 0] ELSE f
        scale == IF s.neg /\ s.m > 0 THEN 32768 ELSE 32767
        t == TruncScaled(s.m, s.e, scale)
    IN ToInt16(IF s.neg THEN -t ELSE t)

\* Samples at the ends and in the middle of the 16-bit range.
EdgeSamples == {Int16Min, -1, 0, 1, 16384, Int16Max}

\* Received frames: every one-sample frame, and the two-sample frames over
\* the edge samples.
PcmFrames == {<<n>> : n \in Int16} \cup {<<a, b>> : a, b \in EdgeSamples}

\* Captured floats k/8 for k in -12..12: in and out of [-1, 1].
GridFloats == {[neg |-> k < 0, m |-> Abs(k), e |-> 3] : k \in -12..12}

\* Input buffers: every one-sample buffer over the grid, and some of two.
CaptureBuffers ==
    {<<f>> : f \in GridFloats}
      \cup {<<f, g>> : f, g \in {h \in GridFloats : h.m \in {0, 3, 8, 12}}}

\* A frame to decode has arrived, or a buffer to encode has been captured.
PcmInit ==
    /\ floatData = <<>>
    /\ sentPcm = <<>>
    /\ \/ /\ pcmStage = "received"
          /\ pcmData \in PcmFrames
          /\ inputData = <<>>
       \/ /\ pcmStage = "captured"
          /\ pcmData = <<>>
          /\ inputData \in CaptureBuffers

\* No conversion is under way.
PcmIdle ==
    /\ pcmStage = "idle"
    /\ pcmData = <<>>
    /\ floatData = <<>>
    /\ inputData = <<>>
    /\ sentPcm = <<>>

\* The loop of playAudioChunk over pcmData.
DecodeFrame ==
    /\ pcmStage = "received"
    /\ floatData' = [i \in 1..Len(pcmData) |-> DecodeSample(pcmData[i])]
    /\ pcmStage' = "decoded"
    /\ UNCHANGED <<pcmData, inputData, sentPcm, pageVars, recVars>>

\* The decoded samples come back as a captured input buffer.
Loopback ==
    /\ pcmStage = "decoded"
    /\ inputData' = floatData
    /\ pcmStage' = "captured"
    /\ UNCHANGED <<pcmData, floatData, sentPcm, pageVars, recVars>>

\* The loop of onaudioprocess over inputData.
EncodeFrame ==
    /\ pcmStage = "captured"
    /\ sentPcm' = [i \in 1..Len(inputData) |-> EncodeSample(inputData[i])]
    /\ pcmStage' = "encoded"
    /\ UNCHANGED <<pcmData, floatData, inputData, pageVars, recVars>>

PcmNext == DecodeFrame \/ Loopback \/ EncodeFrame

\* ---- VoiceRecorder ----

NoText == 0
VrTexts == 1..MaxVrText
StatusTexts == {"", "listening", "processing", "speaking"}

\* A state setter of VoiceRecorder: without effect once it is unmounted.
VrSet(cur, new) == IF vrMounted = "yes" THEN new ELSE cur

\* Before the component is rendered.
RecIdle ==
    /\ vrMounted = "no"
    /\ vrSocket = "none"
    /\ isConnected = FALSE
    /\ isRecording = FALSE
    /\ status = ""
    /\ transcription = NoText
    /\ handlerSees = NoText
    /\ onMessageCalls = <<>>
    /\ vrFrames = 0

\* connectWebSocket: a new socket whose handlers are closures of the
\* render that runs it, so they read that render's transcription.
ConnectWebSocket ==
    /\ vrSocket' = "connecting"
    /\ handlerSees' = transcription

\* The first render and its mount effect: connectWebSocket().
VrMount ==
    /\ vrMounted = "no"
    /\ vrMounted' = "yes"
    /\ ConnectWebSocket
    /\ UNCHANGED <<isConnected, isRecording, status, transcription, onMessageCalls,
                   vrFrames, pageVars, pcmVars>>

\* ws.onopen.
VrOpen ==
    /\ vrSocket = "connecting"
    /\ vrSocket' = "open"
    /\ isConnected' = VrSet(isConnected, TRUE)
    /\ UNCHANGED <<vrMounted, isRecording, status, transcription, handlerSees,
                   onMessageCalls, vrFrames, pageVars, pcmVars>>

\* ws.onerror; the close event follows.
VrError ==
    /\ vrSocket \in {"connecting", "open", "closing"}
    /\ vrSocket' = "failed"
    /\ isConnected' = VrSet(isConnected, FALSE)
    /\ UNCHANGED <<vrMounted, isRecording, status, transcription, handlerSees,
                   onMessageCalls, vrFrames, pageVars, pcmVars>>

\* ws.onclose.
VrClose ==
    /\ vrSocket \in {"open", "closing", "failed"}
    /\ vrSocket' = "closed"
    /\ isConnected' = VrSet(isConnected, FALSE)
    /\ UNCHANGED <<vrMounted, isRecording, status, transcription, handlerSees,
                   onMessageCalls, vrFrames, pageVars, pcmVars>>

\* ws.onmessage, type 'status'.
VrStatusMsg ==
    /\ vrSocket = "open"
    /\ vrFrames < MaxVrFrames
    /\ vrFrames' = vrFrames + 1
    /\ \E st \in StatusTexts : status' = VrSet(status, st)
    /\ UNCHANGED <<vrMounted, vrSocket, isConnected, isRecording, transcription,
                   handlerSees, onMessageCalls, pageVars, pcmVars>>

\* ws.onmessage, type 'transcription': setTranscription(message.text || '').
VrTranscriptionMsg(t) ==
    /\ vrSocket = "open"
    /\ vrFrames < MaxVrFrames
    /\ vrFrames' = vrFrames + 1
    /\ transcription' = VrSet(transcription, t)
    /\ UNCHANGED <<vrMounted, vrSocket, isConnected, isRecording, status, handlerSees,
                   onMessageCalls, pageVars, pcmVars>>

\* ws.onmessage, type 'response', with text t: onMessage is called if the
\* text and the transcription the handler reads are both non-empty; then
\* status and transcription are cleared.
VrResponseMsg(t) ==
    /\ vrSocket = "open"
    /\ vrFrames < MaxVrFrames
    /\ vrFrames' = vrFrames + 1
    /\ onMessageCalls' = IF t # NoText /\ handlerSees # NoText
                           THEN Append(onMessageCalls, <<handlerSees, t>>)
                           ELSE onMessageCalls
    /\ status' = VrSet(status, "")
    /\ transcription' = VrSet(transcription, NoText)
    /\ UNCHANGED <<vrMounted, vrSocket, isConnected, isRecording, handlerSees,
                   pageVars, pcmVars>>

\* ws.onmessage, type 'error': alert, then setStatus('').
VrErrorMsg ==
    /\ vrSocket = "open"
    /\ vrFrames < MaxVrFrames
    /\ vrFrames' = vrFrames + 1
    /\ status' = VrSet(status, "")
    /\ UNCHANGED <<vrMounted, vrSocket, isConnected, isRecording, transcription,
                   handlerSees, onMessageCalls, pageVars, pcmVars>>

\* toggleRecording, from the button (disabled when neither connected nor
\* recording): stop a recording, or connect if not connected and start one
\* (getUserMedia may fail, and then nothing is recorded).
VrToggleRecording ==
    /\ vrMounted = "yes"
    /\ isConnected \/ isRecording
    /\ IF isRecording
         THEN /\ isRecording' = FALSE
              /\ UNCHANGED <<vrSocket, handlerSees>>
         ELSE /\ IF ~isConnected
                   THEN ConnectWebSocket
                   ELSE UNCHANGED <<vrSocket, handlerSees>>
              /\ \E granted \in BOOLEAN : isRecording' = granted
    /\ UNCHANGED <<vrMounted, isConnected, status, transcription, onMessageCalls,
                   vrFrames, pageVars, pcmVars>>

\* The cleanup of the mount effect: wsRef.current.close().
VrUnmount ==
    /\ vrMounted = "yes"
    /\ vrMounted' = "gone"
    /\ vrSocket' = IF vrSocket \in {"connecting", "open"} THEN "closing" ELSE vrSocket
    /\ UNCHANGED <<isConnected, isRecording, status, transcription, handlerSees,
                   onMessageCalls, vrFrames, pageVars, pcmVars>>

RecNext ==
    \/ VrMount
    \/ VrOpen
    \/ VrError
    \/ VrClose
    \/ VrStatusMsg
    \/ \E t \in VrTexts \cup {NoText} : VrTranscriptionMsg(t)
    \/ \E t \in VrTexts \cup {NoText} : VrResponseMsg(t)
    \/ VrErrorMsg
    \/ VrToggleRecording
    \/ VrUnmount

\* ---- the three specifications ----

\* The call page; no conversion under way, no recorder rendered.
Init == PageInit /\ PcmIdle /\ RecIdle

Next ==
    \/ HandleStartCall
    \/ StartCallSuccess
    \/ StartCallError
    \/ GetUserMediaOk
    \/ GetUserMediaFail
    \/ \E k \in Calls : WsOpen(k)
    \/ \E k \in Calls : WsError(k)
    \/ \E k \in Calls : WsClose(k)
    \/ \E k \in Calls : WsMessageError(k)
    \/ \E k \in Calls : WsTranscription(k)
    \/ \E k \in Calls : WsAgentResponse(k)
    \/ \E k \in Calls : WsTextIgnored(k)
    \/ \E k \in Calls : WsBinary(k)
    \/ \E s \in playing : SourceEnded(s)
    \/ \E k \in Calls : AudioProcess(k)
    \/ HandleEndCall
    \/ EndCallSuccess
    \/ EndCallError
    \/ Unmount

Spec == Init /\ [][Next]_vars

\* The sample conversions on their own.
InitPcm == PageInit /\ PcmInit /\ RecIdle
SpecPcm == InitPcm /\ [][PcmNext]_vars

\* The VoiceRecorder component on its own, before its first render.
InitRecorder == PageInit /\ PcmIdle /\ RecIdle
SpecRecorder == InitRecorder /\ [][RecNext]_vars

\* ---- fairness: what the browser and the request library guarantee ----
\* A pending request completes (with either outcome); getUserMedia settles;
\* a socket that is connecting settles; a socket that is closing or has
\* failed fires its close event; a started buffer source ends.  The remote
\* side closing an open channel, and the user's clicks, are not guaranteed.
Fairness ==
    /\ WF_vars(StartCallSuccess \/ StartCallError)
    /\ WF_vars(GetUserMediaOk \/ GetUserMediaFail)
    /\ WF_vars(EndCallSuccess \/ EndCallError)
    /\ WF_vars(\E k \in Calls : WsOpen(k) \/ (wsState[k] = "connecting" /\ WsError(k)))
    /\ WF_vars(\E k \in Calls : wsState[k] \in {"closing", "failed"} /\ WsClose(k))
    /\ WF_vars(\E s \in playing : SourceEnded(s))

FairSpec == Spec /\ Fairness

\* ---- steps, recognised by what they change ----

\* connectWebSocket ran to its end without creating a socket: it threw.
ConnectThrew ==
    /\ startReq = "awaitMedia"
    /\ startReq' = "none"
    /\ wsState'[nCalls] = "none"

\* An event (open, error, close) fired on socket k.
SocketEvent(k) ==
    /\ wsState'[k] # wsState[k]
    /\ wsState'[k] \in {"open", "failed", "closed"}

\* Nothing is held: no processor connected, no stream live, no context
\* running, no socket connecting or open, nothing queued.
AllReleased ==
    /\ \A k \in Calls : /\ procState[k] # "connected"
                        /\ streamState[k] # "live"
                        /\ ctxState[k] # "running"
                        /\ wsState[k] \notin {"connecting", "open"}
    /\ audioQueueRef = <<>>

\* ---- claims ----

\* C1: at most one audio chunk is playing at any instant; a chunk that
\* arrives while another is playing is not started before that one ended.
C1_AtMostOnePlaying == Cardinality(playing) <= 1

\* C2: once callState is ended it never changes again, whatever event
\* (channel open, channel close, message, start request, end request) follows.
C2_EndedIsTerminal == [][callState = "ended" => callState' = "ended"]_vars

\* The transitions of callState the claim lists.
ListedTransitions ==
    {<<"idle", "connecting">>, <<"connecting", "active">>, <<"active", "ending">>}
       \cup {<<st, "ended">> : st \in CallStates}

\* C3: callState changes only along the listed transitions (idle->connecting,
\* connecting->active, active->ending, and into ended); any other event
\* leaves it unchanged.
C3_OnlyListedTransitions ==
    [][callState' # callState => <<callState, callState'>> \in ListedTransitions]_vars

\* C4: whenever callState is ended, every call resource has been released
\* and the playback queue is empty.
C4_EndedImpliesReleased == callState = "ended" => AllReleased

\* No event that Fairness guarantees is outstanding: no request in flight,
\* no socket connecting, closing or failed, no source playing.
Quiescent ==
    /\ startReq = "none"
    /\ endPending = 0
    /\ \A k \in Calls : wsState[k] \notin {"connecting", "closing", "failed"}
    /\ playing = {}

\* C5: under fairness of channel and request events, a call that is ending
\* eventually is ended, whether the end-call request succeeds or fails; so
\* the call is never left in ending with no guaranteed event outstanding.
C5_EndingNeverQuiescent == ~(callState = "ending" /\ Quiescent)

\* C5, as a temporal formula (checked under FairSpec).
C5_EndingLeadsToEnded == (callState = "ending") ~> (callState = "ended")

\* The end-call request issued by handleEndCall completes while ending.
GracefulEndStep == callState = "ending" /\ endPending' = endPending - 1

\* C6: the graceful end path discards no queued or playing chunk, and does
\* not reach ended while a chunk is still queued or playing.
C6_GracefulEndKeepsAudio ==
    [][GracefulEndStep =>
          /\ playing' = playing
          /\ audioQueueRef' = audioQueueRef
          /\ (callState' = "ended" => playing = {} /\ audioQueueRef = <<>>)]_vars

C8_FailedConnectReleasesAll ==
    [][ConnectThrew =>
          /\ streamState'[nCalls] # "live"
          /\ ctxState'[nCalls] # "running"
          /\ procState'[nCalls] # "connected"
          /\ wsState'[nCalls] \notin {"connecting", "open"}
          /\ mediaStreamRef' # nCalls
          /\ audioContextRef' # nCalls]_vars

\* C9: when the call's open channel reports an error or drops while the call
\* is active, an error is shown to the user.
C9_ChannelLossSurfacesError ==
    [][\A k \in Calls :
          (callState = "active" /\ wsRef = k /\ wsState[k] = "open"
             /\ wsState'[k] \in {"failed", "closed"}) => error' # NoError]_vars

\* C10: an event of an earlier call's socket changes neither callState, nor
\* the playback queue, nor the refs and resources, once a later call has
\* been started.
C10_EarlierSocketEventsIgnored ==
    [][\A k \in Calls :
          (k < nCalls /\ SocketEvent(k)) =>
              /\ callState' = callState
              /\ audioQueueRef' = audioQueueRef
              /\ playing' = playing
              /\ UNCHANGED refVars
              /\ UNCHANGED <<streamState, ctxState, procState>>]_vars

\* ---- more steps ----

\* disconnectCall ran: from endCallMutation.onSuccess, from the unmount
\* cleanup, or from handleEndCall when there is no callId.
DisconnectStep == EndCallSuccess \/ Unmount \/ (callId = Null /\ HandleEndCall)

\* Socket k fired its error or close event.
SocketLost(k) ==
    /\ wsState'[k] # wsState[k]
    /\ wsState'[k] \in {"failed", "closed"}

\* s is strictly increasing: ids appear in the order of their arrival.
Increasing(s) == \A i, j \in 1..Len(s) : i < j => s[i] < s[j]

\* ---- claims, continued ----

\* C11: audio chunks are started in the order their frames were received:
\* of two started chunks, the one received first was started first.
C11_StartedInArrivalOrder == Increasing(started)

\* C11 witness: two chunks have been started and the first is still playing.
C11_Witness ==
    /\ Len(started) = 2
    /\ \E s \in playing : s.id = 1

\* C12: chunks complete playback in the order in which they were enqueued,
\* whatever their durations.
C12_CompletedInArrivalOrder == Increasing(completed)

\* C13: while the call is active every well-formed binary frame received is
\* started exactly once, on its arrival or later; a chunk leaves the queue
\* or stops playing without having been played to its end only when
\* disconnectCall runs.
C13_ActiveFramesStartedOnce ==
    [][/\ (callState = "active" /\ Len(received') > Len(received)
              /\ received'[Len(received')] % 2 = 0)
           => \/ started' = Append(started, Len(received'))
              \/ audioQueueRef' = Append(audioQueueRef, Len(received'))
       /\ Increasing(started')
       /\ (\E s \in playing : s \notin playing' /\ completed' = completed)
           => DisconnectStep
       /\ (\E i \in 1..Len(audioQueueRef) :
              /\ \A j \in 1..Len(audioQueueRef') : audioQueueRef'[j] # audioQueueRef[i]
              /\ \A j \in 1..Len(started') : started'[j] # audioQueueRef[i])
           => DisconnectStep]_vars

C15_DisconnectWhenEndedIsNoOp ==
    [][(DisconnectStep /\ callState = "ended") =>
          UNCHANGED <<callState, refVars, resVars, audioQueueRef, playing>>]_vars

\* C16: once an end request has moved callState to ending, no captured audio
\* frame is sent on the channel.
C16_NoSendWhileEnding == [][callState = "ending" => nSent' = nSent]_vars

\* C17: while callState is ended (on the mounted page) no captured frame is
\* sent and no received chunk is enqueued or started.
C17_EndedRejectsAudio ==
    [][(mounted /\ callState = "ended") =>
          /\ nSent' = nSent
          /\ started' = started
          /\ Len(audioQueueRef') <= Len(audioQueueRef)]_vars

C19_ErrorMessageOnlySetsError ==
    [][(\E k \in Calls : WsMessageError(k)) =>
          /\ mounted => error' = "server_error"
          /\ UNCHANGED <<callState, transcript, audioQueueRef, playing, refVars, resVars>>]_vars

\* C19 witness: an error message was received in an active call that has a
\* transcript entry and a chunk playing, and the call is still active.
C19_Witness ==
    /\ error = "server_error"
    /\ callState = "active"
    /\ transcript # <<>>
    /\ playing # {}

\* C20: a binary frame whose byte length is not a multiple of 2 is dropped
\* (nothing queued or started for it, callState unchanged), and a well-formed
\* frame is started on arrival whether or not a malformed one came before.
C20_MalformedFrameDropped ==
    [][Len(received') > Len(received) =>
          LET id == Len(received')
          IN IF received'[id] % 2 # 0
               THEN UNCHANGED <<callState, audioQueueRef, playing, started>>
               ELSE audioContextRef # Null => started' = Append(started, id)]_vars

\* C20 witness: a malformed frame was received and dropped, and the
\* well-formed frame after it is playing.
C20_Witness ==
    /\ received = <<3, 4>>
    /\ started = <<2>>
    /\ callState = "active"
    /\ \E s \in playing : s.id = 2

\* ---- claims on text frames, capture and overlapping calls ----

\* The texts of the transcript entries, in the order of the list.
TranscriptTexts(t) == [i \in 1..Len(t) |-> t[i].text]

\* Sockets that are connecting or open.
OpenSockets == {k \in Calls : wsState[k] \in {"connecting", "open"}}

\* Capture pipelines in place: a processor connected on a running context.
CapturePipelines == {k \in Calls : procState[k] = "connected" /\ ctxState[k] = "running"}

\* C21: the transcript keeps arrival order: the list changes only by one
\* entry being appended at its end, carrying the frame that has just
\* arrived, or by being emptied when the next call starts; so its entries
\* stand in the order their frames were received.
C21_TranscriptKeepsArrivalOrder ==
    [][/\ transcript' # transcript =>
            \/ StartCallSuccess /\ transcript' = <<>>
            \/ /\ nText' = nText + 1
               /\ \E type \in {"user", "agent"} :
                     transcript' = Append(transcript, [type |-> type, text |-> nText'])
       /\ Increasing(TranscriptTexts(transcript'))]_vars

\* Two entries are listed: an agent response received first, a final
\* transcription received second.
C21_Witness ==
    /\ Len(transcript) = 2
    /\ transcript[1] = [type |-> "agent", text |-> 1]
    /\ transcript[2] = [type |-> "user", text |-> 2]

\* C23: at any time at most one socket is connecting or open and at most
\* one capture pipeline is in place.
C23_OneChannelOnePipeline ==
    /\ Cardinality(OpenSockets) <= 1
    /\ Cardinality(CapturePipelines) <= 1

\* C24: a call terminated while its connectWebSocket awaited the microphone
\* acquires no stream, context or socket afterwards and does not become
\* active.
C24_TerminatedCallStaysDown ==
    [][\A k \in terminated :
         /\ streamState'[k] = "live" => streamState[k] = "live"
         /\ ctxState'[k] = "running" => ctxState[k] = "running"
         /\ wsState[k] = "none" => wsState'[k] = "none"
         /\ ~(wsState[k] = "connecting" /\ wsState'[k] = "open" /\ callState' = "active")]_vars

\* C25: a transcription frame that is not final leaves the transcript as it
\* is; a final one appends exactly one user entry with the frame's text.
C25_OnlyFinalTranscriptionListed ==
    [][\A k \in Calls :
         /\ TranscriptionMsg(k, FALSE) => transcript' = transcript
         /\ (mounted /\ TranscriptionMsg(k, TRUE)) =>
               transcript' = Append(transcript, [type |-> "user", text |-> nText + 1])]_vars

\* The first text frame left the transcript alone and the second, a final
\* transcription, is its only entry.
C25_Witness ==
    /\ nText = 2
    /\ transcript = <<[type |-> "user", text |-> 2]>>

\* C26: a captured frame is sent only on a socket that is OPEN, whose open
\* event has connected the processor; a capture callback with the socket
\* open sends exactly one frame of 2 bytes for each captured sample.
C26_FramesSentOnlyWhenOpen ==
    [][/\ nSent' # nSent =>
            \E k \in Calls : wsState[k] = "open" /\ procState[k] = "connected"
       /\ \A k \in Calls :
            (AudioProcess(k) /\ wsState[k] = "open") =>
               /\ nSent' = nSent + 1
               /\ sentBytes' = Append(sentBytes, 2 * BufferSize)]_vars

\* A frame has been sent on the open channel of an active call.
C26_Witness ==
    /\ nSent = 1
    /\ sentBytes = <<2 * BufferSize>>
    /\ callState = "active"
    /\ \E k \in Calls : wsState[k] = "open" /\ procState[k] = "connected"

\* C29: a text frame that cannot be parsed, or whose type no case handles,
\* changes neither callState, the transcript, the error nor the playback
\* queue.
C29_UnknownTextFrameIgnored ==
    [][(\E k \in Calls : WsTextIgnored(k)) =>
          UNCHANGED <<callState, transcript, error, audioQueueRef, playing>>]_vars

\* One text frame has arrived on an active call and left no trace: no entry,
\* no error, and the chunk that was playing still plays.
C29_Witness ==
    /\ nText = 1
    /\ callState = "active"
    /\ transcript = <<>>
    /\ error = NoError
    /\ playing # {}

\* ---- claims on the sample conversions and on VoiceRecorder ----

\* How the fraction of m * scale / 2^e compares with one half (m <= 2^e,
\* m < 2^24, scale <= 2^15), in the two halves of m used by TruncScaled.
FractionVsHalf(m, e, scale) ==
    LET A == (m \div 4096) * scale
        B == (m % 4096) * scale
        hi == IF e < 12 THEN 0 ELSE (A + B \div 4096) % 2^(e - 12)
        lo == IF e < 12 THEN (m * scale) % 2^e ELSE B % 4096
        lim == IF e < 12 THEN 2^e ELSE 4096
        H == 2 * hi + (2 * lo) \div lim
        L == (2 * lo) % lim
        top == IF e < 12 THEN 1 ELSE 2^(e - 12)
    IN IF H > top \/ (H = top /\ L > 0) THEN "above"
       ELSE IF H = top THEN "tie" ELSE "below"

\* The integers nearest to the scaled sample: the float f clamped to
\* [-1, 1], times 32768 if negative and 32767 if not.
NearestToScaled(f) ==
    LET s == IF AboveOne(f) THEN [neg |-> f.neg, m |-> 1, e |-> 0] ELSE f
        scale == IF s.neg /\ s.m > 0 THEN 32768 ELSE 32767
        t == TruncScaled(s.m, s.e, scale)
        half == FractionVsHalf(s.m, s.e, scale)
        mags == IF half = "below" THEN {t}
                ELSE IF half = "above" THEN {t + 1} ELSE {t, t + 1}
    IN {IF s.neg THEN -x ELSE x : x \in mags}

\* f is the Float32 for the sample n: 0 for 0; else of the sign of n, of
\* magnitude at most 1, with 24 significant bits, equal to |n| / 32768 for
\* negative n and nearest to n / 32767 for positive n (twice the distance
\* of m * 32767 from n * 2^e is at most 32767), and of magnitude 1 at both
\* ends of the range.
IsDecoded(n, f) ==
    IF n = 0
      THEN f = Zero
      ELSE /\ f.neg = (n < 0)
           /\ f.m \in 2^23..(2^24 - 1)
           /\ f.e >= 23
           /\ ~AboveOne(f)
           /\ n < 0 => f.m = Abs(n) * 2^(f.e - 15)
           /\ n > 0 => Abs(32768 * (f.m - n * 2^(f.e - 15)) - f.m) <= 16383
           /\ n \in {Int16Min, Int16Max} => (f.e = 23 /\ f.m = 2^23)

\* C22: a 16-bit sample decoded by playAudioChunk and encoded again by
\* onaudioprocess comes back within 1 of itself.
C22_RoundTripWithinOne ==
    (pcmStage = "encoded" /\ pcmData # <<>>) =>
        /\ Len(sentPcm) = Len(pcmData)
        /\ \A i \in 1..Len(pcmData) : Abs(sentPcm[i] - pcmData[i]) <= 1

\* A sample that comes back one step off, and the pair of the two ends of
\* the range coming back exactly, are both met.
C22_Witness ==
    /\ pcmStage = "encoded"
    /\ Len(pcmData) = 1
    /\ pcmData[1] > 0
    /\ sentPcm[1] = pcmData[1] - 1

\* C27: the encoded sample is the integer nearest to the clamped and scaled
\* float, and lies in the 16-bit range.
C27_EncodeRoundsToNearest ==
    pcmStage = "encoded" =>
        \A i \in 1..Len(inputData) :
            /\ sentPcm[i] \in Int16
            /\ sentPcm[i] \in NearestToScaled(inputData[i])

\* C28: the decoded frame has one float for each sample, in order, each the
\* quotient of its sample by 32768 (negative) or 32767, within [-1, 1], the
\* ends of the range giving -1 and 1.
C28_DecodeScalesBySign ==
    (pcmStage \in {"decoded", "captured", "encoded"} /\ pcmData # <<>>) =>
        /\ Len(floatData) = Len(pcmData)
        /\ \A i \in 1..Len(pcmData) : IsDecoded(pcmData[i], floatData[i])

\* The frame <<-32768, 32767>> has been decoded to <<-1, 1>>.
C28_Witness ==
    /\ pcmStage = "decoded"
    /\ pcmData = <<Int16Min, Int16Max>>
    /\ floatData = <<[neg |-> TRUE, m |-> 2^23, e |-> 23],
                     [neg |-> FALSE, m |-> 2^23, e |-> 23]>>

\* C30: in VoiceRecorder a response with a text, arriving when a
\* transcription with a text is stored, calls onMessage once with the two
\* texts and clears the stored transcription and the status.
C30_ResponseReportsExchange ==
    [][\A t \in VrTexts :
         (vrMounted = "yes" /\ transcription # NoText /\ VrResponseMsg(t)) =>
            /\ onMessageCalls' = Append(onMessageCalls, <<transcription, t>>)
            /\ transcription' = NoText
            /\ status' = ""]_vars

TypeOK ==
    /\ callState \in CallStates
    /\ callId \in 0..MaxCalls
    /\ mounted \in BOOLEAN
    /\ startReq \in {"none", "pending", "awaitMedia"}
    /\ endPending \in 0..MaxEndPending
    /\ nCalls \in 0..MaxCalls
    /\ nChunks \in 0..MaxChunks
    /\ {mediaStreamRef, audioContextRef, wsRef, processorRef} \subseteq 0..MaxCalls
    /\ playing \subseteq [id : Chunks, ctx : Calls]
    /\ received \in Seq(FrameLens) /\ Len(received) = nChunks
    /\ started \in Seq(Chunks)
    /\ completed \in Seq(Chunks)
    /\ nSent \in 0..MaxSent
    /\ sentBytes \in Seq({2 * BufferSize}) /\ Len(sentBytes) = nSent
    /\ nText \in 0..MaxText
    /\ terminated \subseteq Calls
    /\ transcript \in Seq([type : {"user", "agent"}, text : 1..MaxText])
    /\ Len(transcript) <= MaxTranscript
    /\ PcmIdle
    /\ RecIdle

====
